---- MODULE Spec2Model ----
(***************************************************************************)
(* PyraGen3D: the procedural isometric pyramid renderer                    *)
(* (generateProceduralPyramid and its helpers hexToRgb, shadeColor and     *)
(* drawCube), as a state machine.                                          *)
(*                                                                         *)
(* Numbers.  The renderer computes in floating point.  Every coordinate it *)
(* produces is 512 + k * scale / 20 for an integer k, and scale is         *)
(* min(256 / baseSize, 60), so every coordinate is an integer multiple of  *)
(* 1 / (40 * baseSize) pixel.  The model keeps coordinates as integers in  *)
(* that unit (Unit(baseSize) of them make one pixel); every \div below is  *)
(* exact.  Grid coordinates may be half-integers (offset is               *)
(* (baseSize - currentLayerSize) / 2), so they are kept doubled (gridX2).  *)
(* Colour channels are integers; the stone noise, a real in [-10, 10), is  *)
(* drawn from the integers NoiseValues.  With integer channels and the     *)
(* percents the renderer passes (20, -10, -15, -5) the floating-point      *)
(* Math.floor(c * (1 + percent / 100)) equals the exact floor of           *)
(* c * (100 + percent) / 100, which is what ShadeChannel computes.         *)
(***************************************************************************)
EXTENDS Integers, Sequences, FiniteSets, TLC

VARIABLES
    params,     \* App state `params`: the control panel's GenerationParams
    dark,       \* document.documentElement.classList.contains('dark')
    call,       \* call[i]: the i-th invocation of generateProceduralPyramid
    shade,      \* the latest call of shadeColor: its arguments and its result
    currentImage,   \* App state: <<>> for null, else <<the image URL>>
    isGenerating,   \* App state
    error,          \* App state: <<>> for null, else <<the message>>
    history,        \* App state: GenerationHistory[], newest first
    gen,            \* gen[k]: the k-th call of handleGenerate
    timer,          \* the shared-config timeout: <<>>, or <<hydratedParams>>
    isEditing,      \* ImageDisplay state
    isChatOpen,     \* App state: the PyraTutor panel is shown
    chatMessages,   \* App state: ChatMessage[]
    userMsg,        \* App state: the text of the chat input
    isChatLoading,  \* App state
    chat,           \* chat[k]: the k-th call of handleSendMessage
    playingAudioId, \* App state: <<>> for null, else <<the message id>>
    activeAudioRef, \* activeAudioRef.current: <<>> for null, else <<source>>
    sources,        \* the AudioBufferSourceNodes playAudio has started
    isRecording,    \* App state
    isTranscribing, \* App state
    voice           \* the voice input: its recorder, reader and request

\* the state of the chat, of the audio playback and of the voice input
chatVars == <<isChatOpen, chatMessages, userMsg, isChatLoading, chat>>
audioVars == <<playingAudioId, activeAudioRef, sources>>
voiceVars == <<isRecording, isTranscribing, voice>>
tutorVars == <<chatVars, audioVars, voiceVars>>

\* the state of the image generation
genVars == <<currentImage, isGenerating, error, history, gen, timer, isEditing>>

\* the state of the App component around the renderer
appVars == <<genVars, tutorVars>>

vars == <<params, dark, call, shade, appVars>>

----------------------------------------------------------------------------
(* Bounds of the model *)

BaseSizeBound == 10         \* Spec draws baseSize from 3..BaseSizeBound
PairLevelsBound == 3        \* PairSpec draws levels from 2..PairLevelsBound
PairBaseSizeBound == 3      \* PairSpec draws baseSize from 3..PairBaseSizeBound
MaxGenerations == 2         \* AppSpec makes up to MaxGenerations calls of handleGenerate
MaxChatRequests == 2        \* TutorSpec makes up to MaxChatRequests calls of handleSendMessage
MaxSources == 2             \* TutorSpec starts up to MaxSources audio sources
MaxRecordings == 1          \* TutorSpec starts up to MaxRecordings recordings

(* Program constants *)

MinLevels == 2
MaxLevels == 15
MinBaseSize == 3
size == 1024
HistoryLimit == 10

Invocations == 1..2

MARBLE == "Marble"
STONE == "Rough Stone"
NEON == "Glowing Neon"
WOOD == "Polished Wood"
GLASS == "Frosted Glass"
METAL == "Brushed Steel"
MOSAIC == "Colorful Mosaic"
CERAMIC == "Glazed Ceramic"
TilePatterns == {MARBLE, WOOD, STONE, GLASS, METAL, NEON, MOSAIC, CERAMIC}
\* the patterns the renderer tells apart, and one it does not
Patterns == {MARBLE, STONE, NEON}

SQUARE == "Square"
TRIANGULAR == "Triangular"
BaseTypes == {SQUARE, TRIANGULAR}

\* tileColor strings, as sequences of characters
DefaultTileColor == <<"#", "3", "b", "8", "2", "f", "6">>
RedTileColor == <<"#", "F", "F", "0", "0", "0", "0">>
\* a three-digit colour, which the renderer's pattern does not match
ShortTileColor == <<"#", "f", "0", "0">>
TileColors == {DefaultTileColor, RedTileColor}

\* (Math.random() - 0.5) * 20 lies in [-10, 10); the integers drawn from it
NoiseValues == {-10, 9}

\* the percent arguments shadeColor is called with
Percents == {20, -10, -15, -5}

EmptyString == <<>>

Min(a, b) == IF a <= b THEN a ELSE b
Max(a, b) == IF a >= b THEN a ELSE b

----------------------------------------------------------------------------
(* hexToRgb *)

HexDigitValue(ch) ==
    CASE ch = "0" -> 0 [] ch = "1" -> 1 [] ch = "2" -> 2 [] ch = "3" -> 3
      [] ch = "4" -> 4 [] ch = "5" -> 5 [] ch = "6" -> 6 [] ch = "7" -> 7
      [] ch = "8" -> 8 [] ch = "9" -> 9
      [] ch \in {"a", "A"} -> 10 [] ch \in {"b", "B"} -> 11
      [] ch \in {"c", "C"} -> 12 [] ch \in {"d", "D"} -> 13
      [] ch \in {"e", "E"} -> 14 [] ch \in {"f", "F"} -> 15
      [] OTHER -> -1

\* parseInt(s, 16) of a two-character group the regular expression matched
parseInt16(s) == 16 * HexDigitValue(s[1]) + HexDigitValue(s[2])

\* the regular expression without its i flag: lower-case digits only
hexToRgbCaseSensitive(hex) ==
    LET body == IF Len(hex) > 0 /\ hex[1] = "#" THEN Tail(hex) ELSE hex
        matches == /\ Len(body) = 6
                   /\ \A k \in 1..6 :
                         /\ HexDigitValue(body[k]) >= 0
                         /\ body[k] \notin {"A", "B", "C", "D", "E", "F"}
    IN  IF matches
        THEN [r |-> parseInt16(SubSeq(body, 1, 2)),
              g |-> parseInt16(SubSeq(body, 3, 4)),
              b |-> parseInt16(SubSeq(body, 5, 6))]
        ELSE [r |-> 100, g |-> 100, b |-> 100]

\* /^#?([a-f\d]{2})([a-f\d]{2})([a-f\d]{2})$/i, else the grey fallback
hexToRgb(hex) ==
    LET body == IF Len(hex) > 0 /\ hex[1] = "#" THEN Tail(hex) ELSE hex
        matches == /\ Len(body) = 6
                   /\ \A k \in 1..6 : HexDigitValue(body[k]) >= 0
    IN  IF matches
        THEN [r |-> parseInt16(SubSeq(body, 1, 2)),
              g |-> parseInt16(SubSeq(body, 3, 4)),
              b |-> parseInt16(SubSeq(body, 5, 6))]
        ELSE [r |-> 100, g |-> 100, b |-> 100]

----------------------------------------------------------------------------
(* shadeColor *)

\* a channel rounded to the nearest integer instead of down
ShadeChannelRound(c, percent) ==
    Min(255, Max(0, (c * (100 + percent) + 50) \div 100))

\* Math.min(255, Math.max(0, Math.floor(c * (1 + percent / 100)))): one
\* channel of shadeColor
ShadeChannel(c, percent) ==
    Min(255, Max(0, (c * (100 + percent)) \div 100))

\* `rgb(R,G,B)`
shadeColor(r, g, b, percent) ==
    <<ShadeChannel(r, percent), ShadeChannel(g, percent), ShadeChannel(b, percent)>>

----------------------------------------------------------------------------
(* Geometry configuration and drawCube *)

\* sub-pixel units per pixel for a given baseSize
Unit(baseSize) == 40 * baseSize

\* scale, tileW, tileH, centerX, centerY
Geometry(baseSize) ==
    LET u == Unit(baseSize)
        scale == Min((size * u) \div (baseSize * 4), 60 * u)
        tileW == scale * 2
        tileH == scale
    IN  [unit |-> u,
         tileW |-> tileW,
         tileH |-> tileH,
         centerX |-> (size * u) \div 2,
         centerY |-> (size * u) \div 2 + (baseSize * tileH) \div 2]

\* The three faces drawCube paints, in order.  gridX2, gridY2 are the doubled
\* grid coordinates.  strokeStyle is set once, with the top face, and stays.
drawCube(geo, gridX2, gridY2, z, r, g, b) ==
    LET tileW == geo.tileW
        tileH == geo.tileH
        isoX == ((gridX2 - gridY2) * tileW) \div 4 + geo.centerX
        isoY == ((gridX2 + gridY2) * tileH) \div 4
                    - (z * tileH * 85) \div 100 + geo.centerY
        halfW == tileW \div 2
        stroke == shadeColor(r, g, b, -10)
    IN  << [face |-> "top",
            path |-> << <<isoX, isoY - tileH>>,
                        <<isoX + halfW, isoY - (tileH * 3) \div 2>>,
                        <<isoX, isoY - tileH * 2>>,
                        <<isoX - halfW, isoY - (tileH * 3) \div 2>> >>,
            fill |-> shadeColor(r, g, b, 20),
            stroke |-> stroke],
           [face |-> "right",
            path |-> << <<isoX, isoY - tileH>>,
                        <<isoX + halfW, isoY - (tileH * 3) \div 2>>,
                        <<isoX + halfW, isoY - tileH \div 2>>,
                        <<isoX, isoY>> >>,
            fill |-> shadeColor(r, g, b, -15),
            stroke |-> stroke],
           [face |-> "left",
            path |-> << <<isoX, isoY - tileH>>,
                        <<isoX - halfW, isoY - (tileH * 3) \div 2>>,
                        <<isoX - halfW, isoY - tileH \div 2>>,
                        <<isoX, isoY>> >>,
            fill |-> shadeColor(r, g, b, -5),
            stroke |-> stroke] >>

----------------------------------------------------------------------------
(* The render loop's pieces *)

\* the gradient fillRect paints: <<stop 0, stop 1>>
Background(isDark) ==
    IF isDark THEN <<"#0f172a", "#1e293b">> ELSE <<"#f8fafc", "#e2e8f0">>

\* a layer one tile narrower than the one below, instead of two
LayerSizeByOne(baseSize, z) == Max(1, baseSize - z)

\* a layer size that shrinks on the odd layers only
LayerSizeAlternating(baseSize, z) == Max(1, baseSize - 2 * (z % 2))

\* Math.max(1, baseSize - (z * 2))
currentLayerSize(baseSize, z) == Max(1, baseSize - (z * 2))

\* if (currentLayerSize <= 0 && z > 0) break
TapersToNothing(layerSize, z) == layerSize <= 0 /\ z > 0

\* the triangular cut taking the diagonal away as well
SkipsTileDiagonal(baseType, x, y) == baseType = TRIANGULAR /\ x >= y

\* if (baseType === PyramidBase.TRIANGULAR) { if (x > y) continue; }
SkipsTile(baseType, x, y) == baseType = TRIANGULAR /\ x > y

\* the stone noise applied to every pattern but Glowing Neon
PerTileColorsStoneForAll(rgb, pattern, z) ==
    IF pattern = NEON
    THEN {[r |-> Min(255, rgb.r + z * 10), g |-> rgb.g, b |-> rgb.b]}
    ELSE {[r |-> rgb.r + noise, g |-> rgb.g + noise, b |-> rgb.b + noise] :
             noise \in NoiseValues}

\* the stone noise of twice the amplitude, (Math.random() - 0.5) * 40
PerTileColorsDoubleNoise(rgb, pattern, z) ==
    IF pattern = NEON
    THEN {[r |-> Min(255, rgb.r + z * 10), g |-> rgb.g, b |-> rgb.b]}
    ELSE IF pattern = STONE
    THEN {[r |-> rgb.r + 2 * noise, g |-> rgb.g + 2 * noise,
           b |-> rgb.b + 2 * noise] : noise \in NoiseValues}
    ELSE {rgb}

\* the neon brightening without its cap
PerTileColorsNeonUncapped(rgb, pattern, z) ==
    IF pattern = NEON
    THEN {[r |-> rgb.r + z * 10, g |-> rgb.g, b |-> rgb.b]}
    ELSE IF pattern = STONE
    THEN {[r |-> rgb.r + noise, g |-> rgb.g + noise, b |-> rgb.b + noise] :
             noise \in NoiseValues}
    ELSE {rgb}

\* the stone noise drawn once for each of the three channels
PerTileColorsIndependentNoise(rgb, pattern, z) ==
    IF pattern = NEON
    THEN {[r |-> Min(255, rgb.r + z * 10), g |-> rgb.g, b |-> rgb.b]}
    ELSE IF pattern = STONE
    THEN {[r |-> rgb.r + nr, g |-> rgb.g + ng, b |-> rgb.b + nb] :
             nr \in NoiseValues, ng \in NoiseValues, nb \in NoiseValues}
    ELSE {rgb}

\* rV, gV, bV of one tile at layer z: the values the colouring can give, one
\* for each value (Math.random() - 0.5) * 20 can take where it is called
PerTileColors(rgb, pattern, z) ==
    IF pattern = NEON
    THEN {[r |-> Min(255, rgb.r + z * 10), g |-> rgb.g, b |-> rgb.b]}
    ELSE IF pattern = STONE
    THEN {[r |-> rgb.r + noise, g |-> rgb.g + noise, b |-> rgb.b + noise] :
             noise \in NoiseValues}
    ELSE {rgb}

\* an encoder that yields the empty string
toDataURLEmpty(width, height) == EmptyString

\* canvas.toDataURL('image/png') of a canvas of the given width and height
toDataURL(width, height) == <<"data:image/png;base64", width, height>>

----------------------------------------------------------------------------
(* State *)

\* useState<GenerationParams> initial value, restricted to the fields the
\* renderer reads
DefaultParams ==
    [levels |-> 5, baseSize |-> 5, tileColor |-> DefaultTileColor,
     pattern |-> MARBLE, baseType |-> SQUARE]

\* an invocation that has not been made yet
IdleCall ==
    [pc |-> "idle",          \* idle, layer (for z), tile (for x, y), encode, done
     p |-> DefaultParams,    \* the params argument
     ctx |-> FALSE,          \* canvas.getContext('2d') returned a context
     isDark |-> FALSE,       \* what classList.contains('dark') returned
     bg |-> <<>>,            \* the fillRect calls made, each its gradient
     rgb |-> [r |-> 0, g |-> 0, b |-> 0],    \* hexToRgb(tileColor)
     z |-> 0, x |-> 0, y |-> 0,
     layerSize |-> 0,        \* currentLayerSize
     offset2 |-> 0,          \* 2 * offset
     tiles |-> <<>>,         \* tiles[z + 1]: drawCube calls made in layer z
     n |-> 0,                \* drawCube calls made
     cube |-> <<>>,          \* the latest drawCube call, if any
     footprint |-> {},       \* <<gridX2, gridY2>> of the tiles drawn in layer 0
     result |-> EmptyString] \* what the promise resolved with, once pc = "done"

ParamSpace(levelsSet, baseSizes) ==
    [levels : levelsSet, baseSize : baseSizes, tileColor : TileColors,
     pattern : Patterns, baseType : BaseTypes]

\* the arguments and result of one shadeColor call
ShadeCall(r, g, b, percent) ==
    [r |-> r, g |-> g, b |-> b, percent |-> percent,
     out |-> shadeColor(r, g, b, percent)]

\* modelVersion: an image model and the procedural engine
GeminiPro == "gemini-3-pro-image-preview"
MathEngine == "math-fractal-engine"

\* useState<GenerationParams> initial value, all its fields
InitialParams ==
    [levels |-> 5, baseSize |-> 5, tileColor |-> DefaultTileColor,
     pattern |-> MARBLE, baseType |-> SQUARE,
     backgroundStyle |-> "Minimalistic grey studio",
     lightDirection |-> "Top-Down",
     lightIntensity |-> 80,
     shadowsEnabled |-> TRUE,
     referenceImage |-> <<>>,
     modelVersion |-> GeminiPro]

\* a call of handleGenerate that has not been made yet
IdleGen ==
    [pc |-> "idle",          \* idle, awaiting (the image model), done, failed
     activeParams |-> InitialParams,
     imageUrl |-> EmptyString]

Generations == 1..MaxGenerations

\* the App and ImageDisplay state after construction, without a shared config
\* a call of handleSendMessage that has not been made yet
IdleChat ==
    [pc |-> "idle"]     \* idle, reply (getChatResponse awaited), speech
                        \* (generateSpeechData awaited), done, failed

ChatRequests == 1..MaxChatRequests

\* the chat, the audio playback and the voice input after construction
TutorIdle ==
    /\ isChatOpen = FALSE
    /\ chatMessages = <<>>
    /\ userMsg = EmptyString
    /\ isChatLoading = FALSE
    /\ chat = [k \in ChatRequests |-> IdleChat]
    /\ playingAudioId = <<>>
    /\ activeAudioRef = <<>>
    /\ sources = <<>>
    /\ isRecording = FALSE
    /\ isTranscribing = FALSE
    /\ voice = [pc |-> "idle",  \* idle, asking (getUserMedia awaited),
                                \* recording, reading (onstop and the
                                \* FileReader pending), transcribing
                                \* (transcribeUserAudio awaited), thrown
                count |-> 0]    \* recordings started

AppIdle ==
    /\ TutorIdle
    /\ currentImage = <<>>
    /\ isGenerating = FALSE
    /\ error = <<>>
    /\ history = <<>>
    /\ gen = [k \in Generations |-> IdleGen]
    /\ timer = <<>>
    /\ isEditing = FALSE

Init ==
    /\ params \in ParamSpace(MinLevels..MaxLevels, MinBaseSize..BaseSizeBound)
    /\ dark \in BOOLEAN
    /\ call = [i \in Invocations |-> IdleCall]
    /\ shade = ShadeCall(0, 0, 0, 20)
    /\ AppIdle

----------------------------------------------------------------------------
(* generateProceduralPyramid *)

\* the background painted before the context is tested
InvokeBackgroundFirst(i) ==
    /\ call[i].pc = "idle"
    /\ \E ctx \in BOOLEAN :
         call' = [call EXCEPT ![i] =
            IF ~ctx
            THEN [@ EXCEPT !.pc = "done", !.p = params, !.ctx = FALSE,
                           !.bg = Append(@, Background(dark)),
                           !.result = EmptyString]
            ELSE [@ EXCEPT !.pc = "layer", !.p = params, !.ctx = TRUE,
                           !.isDark = dark,
                           !.bg = Append(@, Background(dark)),
                           !.rgb = hexToRgb(params.tileColor),
                           !.z = 0]]
    /\ UNCHANGED <<params, dark, shade, appVars>>

\* the tile colour dimmed by lightIntensity, and by half without shadows
InvokeLit(i) ==
    /\ call[i].pc = "idle"
    /\ \E ctx \in BOOLEAN :
         call' = [call EXCEPT ![i] =
            IF ~ctx
            THEN [@ EXCEPT !.pc = "done", !.p = params, !.ctx = FALSE,
                           !.result = EmptyString]
            ELSE [@ EXCEPT !.pc = "layer", !.p = params, !.ctx = TRUE,
                           !.isDark = dark,
                           !.bg = Append(@, Background(dark)),
                           !.rgb = [c \in {"r", "g", "b"} |->
                                      (hexToRgb(params.tileColor)[c]
                                          * params.lightIntensity) \div 100],
                           !.z = 0]]
    /\ UNCHANGED <<params, dark, shade, appVars>>

\* Lines 574-608: create the canvas and get its context; without one resolve
\* with ''; with one paint the background and configure the geometry.
Invoke(i) ==
    /\ call[i].pc = "idle"
    /\ \E ctx \in BOOLEAN :
         call' = [call EXCEPT ![i] =
            IF ~ctx
            THEN [@ EXCEPT !.pc = "done", !.p = params, !.ctx = FALSE,
                           !.result = EmptyString]
            ELSE [@ EXCEPT !.pc = "layer", !.p = params, !.ctx = TRUE,
                           !.isDark = dark,
                           !.bg = Append(@, Background(dark)),
                           !.rgb = hexToRgb(params.tileColor),
                           !.z = 0]]
    /\ UNCHANGED <<params, dark, shade, appVars>>

\* for (let z = 0; z < levels; z++): the loop test, then the head of its body
\* (currentLayerSize, the break, offset) and the start of the x and y loops
LayerHead(i) ==
    LET c == call[i]
        layerSize == currentLayerSize(c.p.baseSize, c.z)
    IN  /\ c.pc = "layer"
        /\ call' = [call EXCEPT ![i] =
              IF c.z < c.p.levels /\ ~TapersToNothing(layerSize, c.z)
              THEN [@ EXCEPT !.pc = IF layerSize > 0 THEN "tile" ELSE "layer",
                             !.z = IF layerSize > 0 THEN c.z ELSE c.z + 1,
                             !.layerSize = layerSize,
                             !.offset2 = c.p.baseSize - layerSize,
                             !.x = 0, !.y = 0,
                             !.tiles = Append(@, 0)]
              ELSE [@ EXCEPT !.pc = "encode"]]
        /\ UNCHANGED <<params, dark, shade, appVars>>

\* the loops nested the other way round: x inner, y outer
AdvanceXInner(c) ==
    IF c.x + 1 < c.layerSize
    THEN [c EXCEPT !.x = c.x + 1]
    ELSE IF c.y + 1 < c.layerSize
    THEN [c EXCEPT !.y = c.y + 1, !.x = 0]
    ELSE [c EXCEPT !.z = c.z + 1, !.pc = "layer"]

\* y++, then x++ when the y loop ends, then z++ when the x loop ends
Advance(c) ==
    IF c.y + 1 < c.layerSize
    THEN [c EXCEPT !.y = c.y + 1]
    ELSE IF c.x + 1 < c.layerSize
    THEN [c EXCEPT !.x = c.x + 1, !.y = 0]
    ELSE [c EXCEPT !.z = c.z + 1, !.pc = "layer"]

\* one iteration of the y loop that ends in `continue`
SkipTile(i) ==
    LET c == call[i]
    IN  /\ c.pc = "tile"
        /\ SkipsTile(c.p.baseType, c.x, c.y)
        /\ call' = [call EXCEPT ![i] = Advance(c)]
        /\ UNCHANGED <<params, dark, shade, appVars>>

\* the columns of a layer drawn from the front one to the back one
CubeArgsMirrored(c, v) ==
    [z |-> c.z, x |-> c.layerSize - 1 - c.x, y |-> c.y,
     gridX2 |-> 2 * (c.layerSize - 1 - c.x) + c.offset2,
     gridY2 |-> 2 * c.y + c.offset2,
     r |-> v.r, g |-> v.g, b |-> v.b]

\* The arguments of the drawCube call the body of the y loop makes at
\* (x, y) with the tile colour v.
CubeArgs(c, v) ==
    [z |-> c.z, x |-> c.x, y |-> c.y,
     gridX2 |-> 2 * c.x + c.offset2, gridY2 |-> 2 * c.y + c.offset2,
     r |-> v.r, g |-> v.g, b |-> v.b]

\* the faces drawCube paints for a recorded call of it
CubeFaces(p, cube) ==
    drawCube(Geometry(p.baseSize), cube.gridX2, cube.gridY2, cube.z,
             cube.r, cube.g, cube.b)

\* One iteration of the y loop that reaches drawCube.  The call keeps the
\* arguments of its latest drawCube call and, of layer 0, where its tiles
\* were put; what drawCube paints for them is CubeFaces.
DrawTile(i) ==
    /\ call[i].pc = "tile"
    /\ ~SkipsTile(call[i].p.baseType, call[i].x, call[i].y)
    /\ \E v \in PerTileColors(call[i].rgb, call[i].p.pattern, call[i].z) :
         call' = [call EXCEPT ![i] =
            [Advance(call[i]) EXCEPT
                !.tiles[call[i].z + 1] = @ + 1,
                !.n = @ + 1,
                !.cube = <<CubeArgs(call[i], v)>>,
                !.footprint =
                    IF call[i].z = 0
                    THEN @ \cup {<<2 * call[i].x + call[i].offset2,
                                   2 * call[i].y + call[i].offset2>>}
                    ELSE @]]
    /\ UNCHANGED <<params, dark, shade, appVars>>

\* resolving that also normalises the tileColor of the shared params
ResolveWritesParams(i) ==
    /\ call[i].pc = "encode"
    /\ call' = [call EXCEPT ![i] =
          [@ EXCEPT !.pc = "done", !.result = toDataURL(size, size)]]
    /\ params' = [params EXCEPT !.tileColor = DefaultTileColor]
    /\ UNCHANGED <<dark, shade, appVars>>

\* resolve(canvas.toDataURL('image/png'))
Resolve(i) ==
    /\ call[i].pc = "encode"
    /\ call' = [call EXCEPT ![i] =
          [@ EXCEPT !.pc = "done", !.result = toDataURL(size, size)]]
    /\ UNCHANGED <<params, dark, shade, appVars>>

\* One invocation of the renderer, for every valid levels and the base sizes
\* up to BaseSizeBound.
Next ==
    \/ Invoke(1)
    \/ LayerHead(1)
    \/ SkipTile(1)
    \/ DrawTile(1)
    \/ Resolve(1)

Spec == Init /\ [][Next]_vars

\* The promise executor runs to completion once started.
LiveSpec == Spec /\ WF_vars(Next)

----------------------------------------------------------------------------
(* Two invocations with the same params, each on its own canvas.  Their steps
   interleave freely, which covers the order the browser runs them in (one
   executor to its end, then the other) and lets the n-th drawCube call of
   one be set against the n-th of the other.  The theme may be switched
   between and during them. *)

PairInit ==
    /\ params \in ParamSpace(MinLevels..PairLevelsBound,
                             MinBaseSize..PairBaseSizeBound)
    /\ dark \in BOOLEAN
    /\ call = [i \in Invocations |-> IdleCall]
    /\ shade = ShadeCall(0, 0, 0, 20)
    /\ AppIdle

\* setTheme('light') / setTheme('dark') and the effect that applies the theme
\* to the document
ToggleTheme ==
    /\ dark' = ~dark
    /\ UNCHANGED <<params, call, shade, appVars>>

PairNext ==
    \/ \E i \in Invocations :
          \/ Invoke(i)
          \/ LayerHead(i)
          \/ SkipTile(i)
          \/ DrawTile(i)
          \/ Resolve(i)
    \/ ToggleTheme

PairSpec == PairInit /\ [][PairNext]_vars

----------------------------------------------------------------------------
(* The fields of GenerationParams the renderer does not destructure.  Two
   invocations, each on its own canvas, with the control panel used after the
   first one was started and before the second one is: the second is called
   with params that differ from the first's in any of these fields. *)

LightDirections == {"Top-Down", "Side-lit"}
LightIntensities == {80, 10}
BackgroundStyles == {"Minimalistic grey studio", "Space"}
\* referenceImage?: absent, or one uploaded data URL
ReferenceImages == {<<>>, <<"data:image/png;base64,guide">>}

UnconsumedKeys ==
    {"backgroundStyle", "lightDirection", "lightIntensity", "shadowsEnabled",
     "referenceImage"}

\* the values a field is given, by the control panel or a shared configuration
FieldValues(key) ==
    CASE key = "backgroundStyle" -> BackgroundStyles
      [] key = "lightDirection" -> LightDirections
      [] key = "lightIntensity" -> LightIntensities
      [] key = "shadowsEnabled" -> BOOLEAN
      [] key = "referenceImage" -> ReferenceImages

\* useState<GenerationParams> initial value, its remaining fields
DefaultUnconsumed ==
    [backgroundStyle |-> "Minimalistic grey studio",
     lightDirection |-> "Top-Down",
     lightIntensity |-> 80,
     shadowsEnabled |-> TRUE,
     referenceImage |-> <<>>]

\* { ...a, ...b }
Spread(a, b) ==
    [k \in (DOMAIN a) \cup (DOMAIN b) |-> IF k \in DOMAIN b THEN b[k] ELSE a[k]]

UnusedInit ==
    /\ \E p \in ParamSpace({MinLevels}, {MinBaseSize}) :
          params = Spread(p, DefaultUnconsumed)
    /\ dark \in BOOLEAN
    /\ call = [i \in Invocations |-> IdleCall]
    /\ shade = ShadeCall(0, 0, 0, 20)
    /\ AppIdle

\* setParams(prev => ({ ...prev, [key]: value }))
handleChange(key, value) ==
    /\ params' = [params EXCEPT ![key] = value]
    /\ UNCHANGED <<dark, call, shade, appVars>>

\* the control panel's inputs for the fields the renderer does not read
ChangeUnconsumed ==
    /\ call[1].pc # "idle"
    /\ call[2].pc = "idle"
    /\ \E key \in UnconsumedKeys :
          \E value \in FieldValues(key) \ {params[key]} :
             handleChange(key, value)

UnusedNext ==
    \/ \E i \in Invocations :
          \/ Invoke(i)
          \/ LayerHead(i)
          \/ SkipTile(i)
          \/ DrawTile(i)
          \/ Resolve(i)
    \/ ChangeUnconsumed

UnusedSpec == UnusedInit /\ [][UnusedNext]_vars

----------------------------------------------------------------------------
(* The App component around the renderer: handleGenerate, the shared-config
   effect, loadFromHistory, the control panel and ImageDisplay's handleEdit.
   A generation by the procedural engine is one step: the promise executor
   runs synchronously and the continuation of the await is a microtask, so no
   other handler runs in between.  A generation by an image model waits for
   the network, and other handlers run meanwhile.  History entries are kept
   without their id and timestamp. *)

\* what an image model returns: `data:${mimeType};base64,${data}`
GeminiImages ==
    {<<"data:image/png;base64", "A">>, <<"data:image/png;base64", "B">>}

\* what editPyramidImage returns
EditedImages == {<<"data:image/png;base64", "edited">>}

\* err.message of what generatePyramidImage throws; "" for one without message
ErrorMessages == {"No image data found in response", ""}

\* the shared configurations of the model: JSON.parse(atob(config))
SharedConfigs == {[levels |-> 6]}

\* the values the control panel gives the fields the App model varies
AppFieldValues(key) ==
    CASE key = "levels" -> {5, 6}
      [] key = "modelVersion" -> {GeminiPro, MathEngine}

\* what generateProceduralPyramid resolves with: '' without a 2D context,
\* else the encoded canvas
ProceduralImage(ctx) == IF ctx THEN toDataURL(size, size) ELSE EmptyString

\* the mount effect: with ?config= in the URL, setParams(hydratedParams) and
\* setTimeout(() => handleGenerate(hydratedParams), 500)
AppInit ==
    /\ \E config \in {<<>>} \cup {<<c>> : c \in SharedConfigs} :
          /\ params = IF config = <<>> THEN InitialParams
                      ELSE Spread(InitialParams, config[1])
          /\ timer = IF config = <<>> THEN <<>>
                     ELSE <<Spread(InitialParams, config[1])>>
    /\ dark = TRUE
    /\ call = [i \in Invocations |-> IdleCall]
    /\ shade = ShadeCall(0, 0, 0, 20)
    /\ currentImage = <<>>
    /\ isGenerating = FALSE
    /\ error = <<>>
    /\ history = <<>>
    /\ gen = [k \in Generations |-> IdleGen]
    /\ isEditing = FALSE
    /\ TutorIdle

\* the new item put behind the earlier ones: [...prev, newHistoryItem]
RecordedAppended(prev, imageUrl, activeParams) ==
    LET all == prev \o <<[imageUrl |-> imageUrl, params |-> activeParams]>>
    IN  SubSeq(all, 1, Min(HistoryLimit, Len(all)))

\* [newHistoryItem, ...prev].slice(0, 10)
Recorded(prev, imageUrl, activeParams) ==
    LET all == <<[imageUrl |-> imageUrl, params |-> activeParams]>> \o prev
    IN  SubSeq(all, 1, Min(HistoryLimit, Len(all)))

\* a continuation that leaves the displayed image alone when the result is ''
CompletedKeepsImage(k, activeParams, imageUrl) ==
    /\ currentImage' = IF imageUrl = EmptyString THEN currentImage
                       ELSE <<imageUrl>>
    /\ history' = Recorded(history, imageUrl, activeParams)
    /\ isGenerating' = FALSE
    /\ gen' = [gen EXCEPT ![k] = [pc |-> "done", activeParams |-> activeParams,
                                  imageUrl |-> imageUrl]]

\* a continuation that records the control panel's params of the moment
CompletedStoresPanelParams(k, activeParams, imageUrl) ==
    /\ currentImage' = <<imageUrl>>
    /\ history' = Recorded(history, imageUrl, params)
    /\ isGenerating' = FALSE
    /\ gen' = [gen EXCEPT ![k] = [pc |-> "done", activeParams |-> activeParams,
                                  imageUrl |-> imageUrl]]

\* handleGenerate after its await, lines 153-161 and the finally block:
\* setCurrentImage(imageUrl), the new history item, setIsGenerating(false)
Completed(k, activeParams, imageUrl) ==
    /\ currentImage' = <<imageUrl>>
    /\ history' = Recorded(history, imageUrl, activeParams)
    /\ isGenerating' = FALSE
    /\ gen' = [gen EXCEPT ![k] = [pc |-> "done", activeParams |-> activeParams,
                                  imageUrl |-> imageUrl]]

\* handleGenerate up to its await, and for the procedural engine to its end
handleGenerate(activeParams) ==
    \E k \in DOMAIN gen :
       /\ gen[k].pc = "idle"
       /\ \A j \in 1..(k - 1) : gen[j].pc # "idle"
       /\ error' = <<>>
       /\ IF activeParams.modelVersion = MathEngine
          THEN \E ctx \in BOOLEAN :
                  Completed(k, activeParams, ProceduralImage(ctx))
          ELSE /\ gen' = [gen EXCEPT ![k] =
                            [pc |-> "awaiting", activeParams |-> activeParams,
                             imageUrl |-> EmptyString]]
               /\ isGenerating' = TRUE
               /\ UNCHANGED <<currentImage, history>>

\* the Generate button, disabled while isGenerating: handleGenerate()
ClickGenerate ==
    /\ ~isGenerating
    /\ handleGenerate(params)
    /\ UNCHANGED <<tutorVars, params, dark, call, shade, timer, isEditing>>

\* the shared-config timeout fires: handleGenerate(hydratedParams)
TimerFires ==
    /\ timer # <<>>
    /\ handleGenerate(timer[1])
    /\ timer' = <<>>
    /\ UNCHANGED <<tutorVars, params, dark, call, shade, isEditing>>

\* generatePyramidImage returns an image: the await of call k resumes
ImageModelReturns(k) ==
    /\ gen[k].pc = "awaiting"
    /\ \E imageUrl \in GeminiImages :
          Completed(k, gen[k].activeParams, imageUrl)
    /\ UNCHANGED <<tutorVars, params, dark, call, shade, error, timer,
                   isEditing>>

\* a catch without the finally block: setIsGenerating(false) only after success
ImageModelThrowsKeepsFlag(k) ==
    /\ gen[k].pc = "awaiting"
    /\ \E message \in ErrorMessages :
          error' = <<IF message # "" THEN message
                     ELSE "Failed to generate image. Please try again.">>
    /\ gen' = [gen EXCEPT ![k].pc = "failed"]
    /\ UNCHANGED <<tutorVars, params, dark, call, shade, currentImage,
                   isGenerating,
                   history, timer, isEditing>>

\* generatePyramidImage throws: the catch and the finally block of call k
ImageModelThrows(k) ==
    /\ gen[k].pc = "awaiting"
    /\ \E message \in ErrorMessages :
          error' = <<IF message # "" THEN message
                     ELSE "Failed to generate image. Please try again.">>
    /\ isGenerating' = FALSE
    /\ gen' = [gen EXCEPT ![k].pc = "failed"]
    /\ UNCHANGED <<tutorVars, params, dark, call, shade, currentImage,
                   history, timer,
                   isEditing>>

\* loadFromHistory(item), item the n-th entry shown in the sidebar
loadFromHistory(n) ==
    /\ n \in 1..Len(history)
    /\ currentImage' = <<history[n].imageUrl>>
    /\ params' = history[n].params
    /\ UNCHANGED <<tutorVars, dark, call, shade, isGenerating, error,
                   history, gen, timer,
                   isEditing>>

\* the control panel's inputs
ChangeParams ==
    \E key \in {"levels", "modelVersion"} :
       \E value \in AppFieldValues(key) \ {params[key]} :
          handleChange(key, value)

\* an image is shown: `imageUrl &&` in ImageDisplay
Shown(image) == image # <<>> /\ image[1] # EmptyString

\* ImageDisplay.handleEdit up to its await; the edit box is rendered for
\* imageUrl && !isGenerating, its button disabled while isEditing
handleEdit ==
    /\ Shown(currentImage)
    /\ ~isGenerating
    /\ ~isEditing
    /\ isEditing' = TRUE
    /\ UNCHANGED <<tutorVars, params, dark, call, shade, currentImage,
                   isGenerating,
                   error, history, gen, timer>>

\* editPyramidImage returns: setCurrentImage(newUrl), then the finally block
EditReturns ==
    /\ isEditing
    /\ \E newUrl \in EditedImages : currentImage' = <<newUrl>>
    /\ isEditing' = FALSE
    /\ UNCHANGED <<tutorVars, params, dark, call, shade, isGenerating, error,
                   history,
                   gen, timer>>

\* editPyramidImage throws: the catch and the finally block
EditThrows ==
    /\ isEditing
    /\ isEditing' = FALSE
    /\ UNCHANGED <<tutorVars, params, dark, call, shade, currentImage,
                   isGenerating,
                   error, history, gen, timer>>

AppNext ==
    \/ ClickGenerate
    \/ TimerFires
    \/ \E k \in Generations : ImageModelReturns(k)
    \/ \E k \in Generations : ImageModelThrows(k)
    \/ \E n \in 1..HistoryLimit : loadFromHistory(n)
    \/ ChangeParams
    \/ handleEdit
    \/ EditReturns
    \/ EditThrows

AppSpec == AppInit /\ [][AppNext]_vars

\* ---- one render for each text the colour field can hold ----

\* the hex digits the regular expression asks for: three groups of {2}
HexDigits == 6

\* characters typed into the colour field: a digit, a lower-case and an
\* upper-case hex letter, and a letter that is no hex digit
TypedChars == {"0", "b", "F", "g"}

\* the texts of at most n typed characters
RECURSIVE Typed(_)
Typed(n) ==
    IF n = 0 THEN {<<>>}
    ELSE LET shorter == Typed(n - 1)
         IN  shorter \cup {Append(t, ch) : t \in {u \in shorter : Len(u) = n - 1},
                                           ch \in TypedChars}

\* the colour field's texts: with or without '#', up to one character more
\* than a full colour
TypedColors ==
    LET bodies == Typed(HexDigits + 1)
    IN  bodies \cup {<<"#">> \o t : t \in bodies}

\* the triangular base, whose loop both draws tiles and skips positions
HexInit ==
    /\ params \in [levels : {MinLevels}, baseSize : {MinBaseSize},
                   tileColor : TypedColors, pattern : {MARBLE},
                   baseType : {TRIANGULAR}]
    /\ dark = TRUE
    /\ call = [i \in Invocations |-> IdleCall]
    /\ shade = ShadeCall(0, 0, 0, 20)
    /\ AppIdle

\* the promise executor runs to completion once started
HexSpec == HexInit /\ [][Next]_vars /\ WF_vars(Next)

\* ---- one session of many generations, one after the other ----

\* the calls of handleGenerate of a session that fills the history
HistoryGenerations == 11

HistoryRuns == 1..HistoryGenerations

\* the page opened without ?config=
HistoryInit ==
    /\ params = InitialParams
    /\ dark = TRUE
    /\ call = [i \in Invocations |-> IdleCall]
    /\ shade = ShadeCall(0, 0, 0, 20)
    /\ currentImage = <<>>
    /\ isGenerating = FALSE
    /\ error = <<>>
    /\ history = <<>>
    /\ gen = [k \in HistoryRuns |-> IdleGen]
    /\ timer = <<>>
    /\ isEditing = FALSE
    /\ TutorIdle

HistoryNext ==
    \/ ClickGenerate
    \/ \E k \in HistoryRuns : ImageModelReturns(k)
    \/ \E n \in 1..HistoryLimit : loadFromHistory(n)

HistorySpec == HistoryInit /\ [][HistoryNext]_vars

----------------------------------------------------------------------------
(* The PyraTutor panel of App: the chat (handleSendMessage), the playback of
   the replies' audio (handleToggleAudio, stopAudio, playAudio) and the voice
   input (startRecording, stopRecording, handleTranscription).  Every await
   of a remote service, of the microphone or of the FileReader is a point
   where other handlers run. *)

\* what the user types into the chat input: nothing, a blank, a word
UserTexts == {EmptyString, <<" ">>, <<"h", "i">>}

\* what transcribeUserAudio resolves with: '' or the words heard
Transcripts == {EmptyString, <<"o", "k">>}

\* the text getChatResponse resolves with
ReplyText == <<"reply">>

\* the text of the message the catch block of handleSendMessage appends
Apology ==
    <<"I'm sorry, I'm having trouble connecting to my architectural database right now.">>

\* String.prototype.trim on a text of letters and blanks
trim(t) ==
    LET letters == {k \in 1..Len(t) : t[k] # " "}
    IN  IF letters = {} THEN EmptyString
        ELSE SubSeq(t, CHOOSE k \in letters : \A j \in letters : k <= j,
                       CHOOSE k \in letters : \A j \in letters : k >= j)

\* what the handlers of the panel leave alone
OutsideTutor == <<params, dark, call, shade, genVars>>

\* toggleChat: the PyraTutor button
toggleChat ==
    /\ isChatOpen' = ~isChatOpen
    /\ UNCHANGED <<chatMessages, userMsg, isChatLoading, chat, audioVars,
                   voiceVars, OutsideTutor>>

\* onChange of the chat input, disabled while isRecording || isTranscribing
TypeMessage ==
    /\ isChatOpen
    /\ ~(isRecording \/ isTranscribing)
    /\ \E text \in UserTexts \ {userMsg} : userMsg' = text
    /\ UNCHANGED <<isChatOpen, chatMessages, isChatLoading, chat, audioVars,
                   voiceVars, OutsideTutor>>

\* handleSendMessage up to its first await
handleSendMessage ==
    /\ trim(userMsg) # EmptyString
    /\ \E k \in DOMAIN chat :
          /\ chat[k].pc = "idle"
          /\ \A j \in 1..(k - 1) : chat[j].pc # "idle"
          /\ chat' = [chat EXCEPT ![k].pc = "reply"]
          /\ chatMessages' = Append(chatMessages,
                [id |-> <<"user", k>>, role |-> "user", text |-> userMsg,
                 audio |-> FALSE])
    /\ userMsg' = EmptyString
    /\ isChatLoading' = TRUE
    /\ UNCHANGED <<isChatOpen, audioVars, voiceVars, OutsideTutor>>

\* the Send button, disabled for isChatLoading || !userMsg.trim() || isRecording
ClickSend ==
    /\ isChatOpen
    /\ ~(isChatLoading \/ trim(userMsg) = EmptyString \/ isRecording)
    /\ handleSendMessage

\* onKeyDown of the chat input: e.key === 'Enter' && !isRecording
PressEnter ==
    /\ isChatOpen
    /\ ~(isRecording \/ isTranscribing)
    /\ ~isRecording
    /\ handleSendMessage

\* getChatResponse returns: call k goes on to await generateSpeechData
ReplyArrives(k) ==
    /\ chat[k].pc = "reply"
    /\ chat' = [chat EXCEPT ![k].pc = "speech"]
    /\ UNCHANGED <<isChatOpen, chatMessages, userMsg, isChatLoading,
                   audioVars, voiceVars, OutsideTutor>>

\* getChatResponse throws: the catch and the finally block of call k
ReplyFails(k) ==
    /\ chat[k].pc = "reply"
    /\ chat' = [chat EXCEPT ![k].pc = "failed"]
    /\ chatMessages' = Append(chatMessages,
          [id |-> <<"err", 0>>, role |-> "model", text |-> Apology,
           audio |-> FALSE])
    /\ isChatLoading' = FALSE
    /\ UNCHANGED <<isChatOpen, userMsg, audioVars, voiceVars, OutsideTutor>>

\* generateSpeechData returns the audio or null (it catches its errors): the
\* model message is appended, then the finally block
SpeechArrives(k) ==
    /\ chat[k].pc = "speech"
    /\ chat' = [chat EXCEPT ![k].pc = "done"]
    /\ \E audioData \in BOOLEAN :
          chatMessages' = Append(chatMessages,
             [id |-> <<"model", k>>, role |-> "model", text |-> ReplyText,
              audio |-> audioData])
    /\ isChatLoading' = FALSE
    /\ UNCHANGED <<isChatOpen, userMsg, audioVars, voiceVars, OutsideTutor>>

\* the sources after activeAudioRef.current.source.stop(): a source that
\* was playing stops, and its ended event is still to come
Stopped ==
    IF activeAudioRef # <<>> /\ sources[activeAudioRef[1]].state = "playing"
    THEN [sources EXCEPT ![activeAudioRef[1]].state = "stopped"]
    ELSE sources

\* stopAudio
stopAudio ==
    /\ sources' = Stopped
    /\ activeAudioRef' = <<>>
    /\ playingAudioId' = <<>>

\* the X button of the panel: setIsChatOpen(false); stopAudio()
CloseChat ==
    /\ isChatOpen
    /\ isChatOpen' = FALSE
    /\ stopAudio
    /\ UNCHANGED <<chatMessages, userMsg, isChatLoading, chat, voiceVars,
                   OutsideTutor>>

\* handleToggleAudio(msg), msg the m-th message: its button is rendered for
\* a model message with audioBase64.  playAudio has no await inside, so the
\* handler runs to its end; playAudio starts a new source or throws
handleToggleAudio(m) ==
    /\ isChatOpen
    /\ m \in 1..Len(chatMessages)
    /\ chatMessages[m].role = "model"
    /\ chatMessages[m].audio
    /\ IF playingAudioId = <<chatMessages[m].id>>
       THEN stopAudio
       ELSE /\ Len(sources) < MaxSources
            /\ \E started \in BOOLEAN :
                  IF started
                  THEN /\ sources' = Append(Stopped,
                             [msg |-> chatMessages[m].id, state |-> "playing"])
                       /\ activeAudioRef' = <<Len(sources) + 1>>
                       /\ playingAudioId' = <<chatMessages[m].id>>
                  ELSE stopAudio
    /\ UNCHANGED <<chatVars, voiceVars, OutsideTutor>>

\* source.onended of source s, at the end of its buffer or after stop():
\* setPlayingAudioId(null)
SourceEnded(s) ==
    /\ s \in 1..Len(sources)
    /\ sources[s].state \in {"playing", "stopped"}
    /\ sources' = [sources EXCEPT ![s].state = "ended"]
    /\ playingAudioId' = <<>>
    /\ UNCHANGED <<activeAudioRef, chatVars, voiceVars, OutsideTutor>>

\* handleMicClick, its button disabled for isChatLoading || isTranscribing:
\* stopRecording, or startRecording up to its await of getUserMedia
handleMicClick ==
    /\ isChatOpen
    /\ ~(isChatLoading \/ isTranscribing)
    /\ IF isRecording
       THEN /\ voice' = [voice EXCEPT !.pc = "reading"]
            /\ isRecording' = FALSE
            /\ isTranscribing' = TRUE
       ELSE /\ voice.pc = "idle"
            /\ voice.count < MaxRecordings
            /\ voice' = [pc |-> "asking", count |-> voice.count + 1]
            /\ UNCHANGED <<isRecording, isTranscribing>>
    /\ UNCHANGED <<chatVars, audioVars, OutsideTutor>>

\* getUserMedia resolves: mediaRecorder.start(); setIsRecording(true)
MicrophoneGranted ==
    /\ voice.pc = "asking"
    /\ voice' = [voice EXCEPT !.pc = "recording"]
    /\ isRecording' = TRUE
    /\ UNCHANGED <<isTranscribing, chatVars, audioVars, OutsideTutor>>

\* getUserMedia rejects: the catch block of startRecording
MicrophoneDenied ==
    /\ voice.pc = "asking"
    /\ voice' = [voice EXCEPT !.pc = "idle"]
    /\ UNCHANGED <<isRecording, isTranscribing, chatVars, audioVars,
                   OutsideTutor>>

\* reader.onloadend with the data URL in reader.result: the callback goes on
\* to await transcribeUserAudio
ReaderLoads ==
    /\ voice.pc = "reading"
    /\ voice' = [voice EXCEPT !.pc = "transcribing"]
    /\ UNCHANGED <<isRecording, isTranscribing, chatVars, audioVars,
                   OutsideTutor>>

\* reader.onloadend after a read error, reader.result null: split of null
\* throws inside the callback, outside the try block of handleTranscription
ReaderFails ==
    /\ voice.pc = "reading"
    /\ voice' = [voice EXCEPT !.pc = "thrown"]
    /\ UNCHANGED <<isRecording, isTranscribing, chatVars, audioVars,
                   OutsideTutor>>

\* transcribeUserAudio resolves: setUserMsg for a text, setIsTranscribing(false)
TranscriptArrives ==
    /\ voice.pc = "transcribing"
    /\ voice' = [voice EXCEPT !.pc = "idle"]
    /\ \E text \in Transcripts :
          userMsg' = IF text = EmptyString THEN userMsg
                     ELSE IF userMsg # EmptyString
                          THEN trim(userMsg \o <<" ">> \o text)
                          ELSE text
    /\ isTranscribing' = FALSE
    /\ UNCHANGED <<isRecording, isChatOpen, chatMessages, isChatLoading, chat,
                   audioVars, OutsideTutor>>

\* transcribeUserAudio rejects: the rejection leaves the callback, outside
\* the try block of handleTranscription
TranscriptionFails ==
    /\ voice.pc = "transcribing"
    /\ voice' = [voice EXCEPT !.pc = "thrown"]
    /\ UNCHANGED <<isRecording, isTranscribing, chatVars, audioVars,
                   OutsideTutor>>

TutorInit ==
    /\ params = InitialParams
    /\ dark = TRUE
    /\ call = [i \in Invocations |-> IdleCall]
    /\ shade = ShadeCall(0, 0, 0, 20)
    /\ AppIdle

TutorNext ==
    \/ toggleChat
    \/ TypeMessage
    \/ ClickSend
    \/ PressEnter
    \/ \E k \in ChatRequests : ReplyArrives(k)
    \/ \E k \in ChatRequests : ReplyFails(k)
    \/ \E k \in ChatRequests : SpeechArrives(k)
    \/ CloseChat
    \/ \E m \in 1..(2 * MaxChatRequests) : handleToggleAudio(m)
    \/ \E s \in 1..MaxSources : SourceEnded(s)
    \/ handleMicClick
    \/ MicrophoneGranted
    \/ MicrophoneDenied
    \/ ReaderLoads
    \/ ReaderFails
    \/ TranscriptArrives
    \/ TranscriptionFails

TutorSpec == TutorInit /\ [][TutorNext]_vars

----------------------------------------------------------------------------
(* One invocation for every tile pattern and every valid levels, on the
   smallest base, with a tileColor of either form. *)

ColourInit ==
    /\ params \in [levels : MinLevels..MaxLevels, baseSize : {MinBaseSize},
                   tileColor : TileColors \cup {ShortTileColor},
                   pattern : TilePatterns, baseType : BaseTypes]
    /\ dark \in BOOLEAN
    /\ call = [i \in Invocations |-> IdleCall]
    /\ shade = ShadeCall(0, 0, 0, 20)
    /\ AppIdle

ColourSpec == ColourInit /\ [][Next]_vars

----------------------------------------------------------------------------
(* shadeColor on its own: any channel values the renderer can pass (a decoded
   channel 0..255, moved by up to 10 by the stone noise) with the percents it
   passes. *)

ChannelValues == -10..265
OtherChannelValues == {0, 130, 255}

ShadeInit ==
    /\ params = DefaultParams
    /\ dark = TRUE
    /\ call = [i \in Invocations |-> IdleCall]
    /\ \E r \in ChannelValues, g \in OtherChannelValues,
          b \in OtherChannelValues, percent \in Percents :
         shade = [r |-> r, g |-> g, b |-> b, percent |-> percent, out |-> <<>>]
    /\ AppIdle

\* shadeColor(r, g, b, percent) returns
ShadeColorCall ==
    /\ shade.out = <<>>
    /\ shade' = ShadeCall(shade.r, shade.g, shade.b, shade.percent)
    /\ UNCHANGED <<params, dark, call, appVars>>

ShadeNext == ShadeColorCall

ShadeSpec == ShadeInit /\ [][ShadeNext]_vars

----------------------------------------------------------------------------
(* Claims *)

IsCanvasImage(result) ==
    /\ result # EmptyString
    /\ Len(result) = 3
    /\ result[2] = 1024
    /\ result[3] = 1024

NothingDrawn(c) ==
    c.bg = <<>> /\ c.n = 0 /\ c.cube = <<>> /\ c.tiles = <<>> /\ c.footprint = {}

\* C1: with a 2D context, for every levels in 2..15 and baseSize from 3 up,
\* the invocation terminates: it resolves, and with a non-empty image of the
\* 1024x1024 canvas.
C1_TerminatesWithImage ==
    (call[1].pc = "layer")
        ~> (call[1].pc = "done" /\ IsCanvasImage(call[1].result))

C1_Witness ==
    /\ call[1].pc = "done"
    /\ call[1].ctx
    /\ call[1].p.levels = 15
    /\ call[1].p.baseSize = 5
    /\ call[1].n > 0
    /\ IsCanvasImage(call[1].result)

\* C2: without a 2D context the invocation resolves with '' and has drawn
\* nothing, and an invocation that resolved with '' has drawn nothing.
C2_NoContextDrawsNothing ==
    \A i \in Invocations :
        LET c == call[i]
        IN  /\ (c.pc # "idle" /\ ~c.ctx) =>
                  (c.pc = "done" /\ c.result = EmptyString /\ NothingDrawn(c))
            /\ (c.pc = "done" /\ c.result = EmptyString) => NothingDrawn(c)

C2_Witness ==
    /\ call[1].pc = "done"
    /\ ~call[1].ctx
    /\ call[1].result = EmptyString
    /\ call[1].bg = <<>>

C4_NoTileOnceTaperedOut ==
    \A i \in Invocations :
        LET c == call[i]
        IN  c.cube # <<>> =>
              ~(c.cube[1].z > 0 /\ c.p.baseSize - 2 * c.cube[1].z <= 0)

\* C5: a Triangular base draws only tiles with x <= y, and draws every such
\* cell of the layer's square: a finished layer of size n holds n(n+1)/2
\* tiles, a layer in progress the cells with x <= y that come before (x, y).
C5_TriangularFootprint ==
    \A i \in Invocations :
        LET c == call[i]
            side(z) == IF c.p.baseSize - 2 * z >= 1
                       THEN c.p.baseSize - 2 * z ELSE 1
            before == {cell \in (0..(c.layerSize - 1)) \X (0..(c.layerSize - 1)) :
                         /\ cell[1] <= cell[2]
                         /\ \/ cell[1] < c.x
                            \/ (cell[1] = c.x /\ cell[2] < c.y)}
        IN  (c.ctx /\ c.p.baseType = TRIANGULAR) =>
                /\ c.cube # <<>> => c.cube[1].x <= c.cube[1].y
                /\ \A z \in 0..(Len(c.tiles) - 1) :
                     IF c.pc = "tile" /\ z = c.z
                     THEN c.tiles[z + 1] = Cardinality(before)
                     ELSE 2 * c.tiles[z + 1] = side(z) * (side(z) + 1)

C5_Witness ==
    /\ call[1].p.baseType = TRIANGULAR
    /\ call[1].p.baseSize = 4
    /\ call[1].pc = "layer"
    /\ call[1].z = 1
    /\ call[1].tiles = <<10>>

\* the polygons of the faces, without their colours
Paths(faces) == [f \in 1..3 |-> faces[f].path]

\* where a drawCube call put its tile
Position(cube) == <<cube.z, cube.x, cube.y, cube.gridX2, cube.gridY2>>

\* C6: for a pattern other than Rough Stone, two invocations with the same
\* params under the same theme issue the same draw operations in the same
\* order (the same background; as n-th cube the same polygons with the same
\* fill and stroke colours; the same number of cubes) and return the same image.
C6_SameDrawOperations ==
    LET a == call[1]
        b == call[2]
    IN  (a.ctx /\ b.ctx /\ a.p = b.p /\ a.isDark = b.isDark
            /\ a.p.pattern # STONE) =>
           /\ a.bg = b.bg
           /\ (a.n = b.n /\ a.n > 0) =>
                 /\ Position(a.cube[1]) = Position(b.cube[1])
                 /\ CubeFaces(a.p, a.cube[1]) = CubeFaces(b.p, b.cube[1])
           /\ (a.pc = "done" /\ b.pc = "done") =>
                 (a.n = b.n /\ a.tiles = b.tiles /\ a.result = b.result)

C6_Witness ==
    /\ call[1].pc = "done"
    /\ call[2].pc = "done"
    /\ call[1].ctx
    /\ call[2].ctx
    /\ call[1].isDark = call[2].isDark
    /\ call[1].p.pattern = NEON
    /\ call[1].n = call[2].n
    /\ call[1].n > 1
    /\ call[1].cube = call[2].cube

\* C7: for Rough Stone, two invocations with the same params draw the same
\* number of tiles at the same grid positions in the same order (as n-th cube
\* the same polygons), and every channel of every tile's colour is within 10
\* of the decoded tileColor's.
C7_StoneSameLayout ==
    LET a == call[1]
        b == call[2]
        near(c) ==
            c.cube # <<>> =>
               /\ c.cube[1].r - hexToRgb(c.p.tileColor).r \in -10..10
               /\ c.cube[1].g - hexToRgb(c.p.tileColor).g \in -10..10
               /\ c.cube[1].b - hexToRgb(c.p.tileColor).b \in -10..10
    IN  (a.ctx /\ b.ctx /\ a.p = b.p /\ a.p.pattern = STONE) =>
           /\ near(a)
           /\ near(b)
           /\ (a.n = b.n /\ a.n > 0) =>
                 /\ Position(a.cube[1]) = Position(b.cube[1])
                 /\ Paths(CubeFaces(a.p, a.cube[1]))
                        = Paths(CubeFaces(b.p, b.cube[1]))
           /\ (a.pc = "done" /\ b.pc = "done") =>
                 (a.n = b.n /\ a.tiles = b.tiles)

C7_Witness ==
    /\ call[1].pc = "done"
    /\ call[2].pc = "done"
    /\ call[1].ctx
    /\ call[2].ctx
    /\ call[1].p.pattern = STONE
    /\ call[1].n = call[2].n
    /\ call[1].n > 1
    /\ Position(call[1].cube[1]) = Position(call[2].cube[1])
    /\ call[1].cube[1].r # call[2].cube[1].r

\* C8: shadeColor maps each channel c on its own to
\* clamp(0, 255, floor(c * (1 + p / 100))): the result o is within 0..255, is 0
\* when the product is negative, 255 when it is 255 or more, and otherwise the
\* integer with o <= c * (1 + p / 100) < o + 1.
ShadeLaw(c, p, o) ==
    LET scaled == c * (100 + p)          \* 100 * c * (1 + p / 100)
    IN  /\ o \in 0..255
        /\ scaled < 0 => o = 0
        /\ scaled >= 255 * 100 => o = 255
        /\ (scaled >= 0 /\ scaled < 255 * 100) =>
              (100 * o <= scaled /\ scaled < 100 * (o + 1))

C9_FitsCanvas ==
    \A i \in Invocations :
        LET c == call[i]
            edge == 1024 * Unit(c.p.baseSize)
            faces == CubeFaces(c.p, c.cube[1])
        IN  c.cube # <<>> =>
              \A f \in 1..3, v \in 1..4 :
                 /\ faces[f].path[v][1] \in 0..edge
                 /\ faces[f].path[v][2] \in 0..edge

\* the x coordinates of the vertices drawn for the tiles of layer 0
BaseLayerXs(c) ==
    UNION { LET faces == drawCube(Geometry(c.p.baseSize), t[1], t[2], 0,
                                  0, 0, 0)
            IN  {faces[f].path[v][1] : f \in 1..3, v \in 1..4}
            : t \in c.footprint }

\* C10: the midpoint between the leftmost and the rightmost vertex drawn in
\* layer 0 is the canvas' horizontal centre, 512.
C10_BaseLayerCentred ==
    \A i \in Invocations :
        LET c == call[i]
            xs == BaseLayerXs(c)
            leftmost == CHOOSE m \in xs : \A o \in xs : m <= o
            rightmost == CHOOSE m \in xs : \A o \in xs : m >= o
        IN  (c.ctx /\ Len(c.tiles) >= 1 /\ ~(c.pc = "tile" /\ c.z = 0)) =>
               /\ xs # {}
               /\ leftmost + rightmost = 2 * 512 * Unit(c.p.baseSize)

\* the drawCube calls per layer an invocation with the params p makes when it
\* is the only one running
AloneTiles(p) ==
    [l \in 1..p.levels |->
        LET n == currentLayerSize(p.baseSize, l - 1)
        IN  IF p.baseType = TRIANGULAR THEN (n * (n + 1)) \div 2 ELSE n * n]

\* a step of the invocation i touches nothing but the invocation i, and keeps
\* the params it was given
OwnCanvasOnly(i) ==
    call'[i] # call[i] =>
        /\ params' = params
        /\ dark' = dark
        /\ shade' = shade
        /\ \A j \in Invocations \ {i} : call'[j] = call[j]
        /\ call[i].pc # "idle" =>
              (call'[i].p = call[i].p /\ call'[i].isDark = call[i].isDark)

\* C11: the renderer writes nothing outside its own canvas (a step of one
\* invocation changes neither params, nor the theme, nor the other
\* invocation, nor the params it was called with), and of two overlapping
\* invocations each ends as it would alone: the background of the theme it
\* read, painted once, the tiles of its own params, the image of its canvas.
C11_InvocationsDoNotInterfere ==
    /\ [](\A i \in Invocations :
             (call[i].pc = "done" /\ call[i].ctx) =>
                 /\ call[i].bg = <<Background(call[i].isDark)>>
                 /\ call[i].tiles = AloneTiles(call[i].p)
                 /\ call[i].result = toDataURL(size, size))
    /\ [][\A i \in Invocations : OwnCanvasOnly(i)]_vars

\* both invocations in the middle of their loops, at different layers
C11_Witness ==
    /\ call[1].pc = "tile"
    /\ call[2].pc = "tile"
    /\ call[1].z = 1
    /\ call[2].z = 0
    /\ call[1].n > 0
    /\ call[2].n > 0
    /\ call[1].isDark # call[2].isDark

\* the fields the renderer destructures or reads: levels, baseSize, tileColor,
\* baseType and pattern
Consumed(p) ==
    [levels |-> p.levels, baseSize |-> p.baseSize, tileColor |-> p.tileColor,
     pattern |-> p.pattern, baseType |-> p.baseType]

\* C12: two invocations whose params differ only in lightDirection,
\* lightIntensity, shadowsEnabled, backgroundStyle or referenceImage, under
\* the same theme and with a pattern other than Rough Stone, issue the same
\* draw operations: the same background, as n-th cube the same polygons with
\* the same colours, the same number of cubes, and the same image.
C12_UnconsumedFieldsIgnored ==
    LET a == call[1]
        b == call[2]
    IN  (a.ctx /\ b.ctx /\ Consumed(a.p) = Consumed(b.p)
            /\ a.isDark = b.isDark /\ a.p.pattern # STONE) =>
           /\ a.bg = b.bg
           /\ a.rgb = b.rgb
           /\ (a.n = b.n /\ a.n > 0) =>
                 /\ a.cube = b.cube
                 /\ CubeFaces(a.p, a.cube[1]) = CubeFaces(b.p, b.cube[1])
           /\ (a.pc = "done" /\ b.pc = "done") =>
                 (a.n = b.n /\ a.tiles = b.tiles /\ a.result = b.result)

\* both finished, called with params that differ in all five fields
C12_Witness ==
    /\ call[1].pc = "done"
    /\ call[2].pc = "done"
    /\ call[1].ctx
    /\ call[2].ctx
    /\ call[1].p.pattern = NEON
    /\ \A key \in UnconsumedKeys : call[1].p[key] # call[2].p[key]
    /\ call[1].n = call[2].n
    /\ call[1].n > 1
    /\ call[1].cube = call[2].cube

\* the most recently started call of handleGenerate
Latest(g) ==
    CHOOSE k \in Generations :
       /\ g[k].pc # "idle"
       /\ \A j \in Generations : g[j].pc # "idle" => j <= k

\* C13: when generations overlap, the stale result of the older call is
\* discarded: a step that completes a call and leaves no call waiting leaves,
\* if the most recently started call has returned an image, that image
\* displayed.
C13_StaleResultDiscarded ==
    [][\A k \in Generations :
          (/\ gen[k].pc = "awaiting"
           /\ gen'[k].pc = "done"
           /\ \A j \in Generations : gen'[j].pc # "awaiting"
           /\ gen'[Latest(gen')].pc = "done")
          => currentImage' = <<gen'[Latest(gen')].imageUrl>>]_vars

\* the call k of handleGenerate runs the procedural engine to its end
ProceduralCompletes(k) ==
    /\ gen[k].pc = "idle"
    /\ gen'[k].pc = "done"
    /\ gen'[k].activeParams.modelVersion = MathEngine

\* C14: when the procedural renderer returns '', handleGenerate completes
\* with no image displayed (the displayed URL is empty, whatever was displayed
\* before) and with no exception: the call ends normally and no error is set.
C14_EmptyResultShowsNoImage ==
    [][\A k \in Generations :
          (ProceduralCompletes(k) /\ gen'[k].imageUrl = EmptyString) =>
              /\ ~Shown(currentImage')
              /\ error' = <<>>
              /\ isGenerating' = FALSE]_vars

\* an image was displayed, then the procedural engine returned ''
C14_Witness ==
    /\ gen[1].pc = "done"
    /\ gen[1].imageUrl \in GeminiImages
    /\ gen[2].pc = "done"
    /\ gen[2].activeParams.modelVersion = MathEngine
    /\ gen[2].imageUrl = EmptyString
    /\ currentImage = <<EmptyString>>
    /\ error = <<>>
    /\ ~isGenerating

\* the call k of handleGenerate gets its image in this step
Succeeds(k) == gen[k].pc # "done" /\ gen'[k].pc = "done"

\* C15: every successful handleGenerate puts at the head of the history an
\* entry with the image that generation returned and the params it was
\* started with (the control panel's of that moment, or the shared
\* configuration's), keeping the entries before it; no other step (a change
\* of params, an image edit, loading an entry) alters the history.
C15_HistoryEntriesVerbatim ==
    /\ [][\/ /\ history' = history
             /\ \A k \in Generations : ~Succeeds(k)
          \/ \E k \in Generations :
                /\ Succeeds(k)
                /\ history'[1] = [imageUrl |-> gen'[k].imageUrl,
                                  params |-> gen'[k].activeParams]
                /\ currentImage' = <<history'[1].imageUrl>>
                /\ Len(history') = Min(10, Len(history) + 1)
                /\ \A n \in 2..Len(history') : history'[n] = history[n - 1]]_vars
    /\ [][\A k \in Generations :
             /\ (gen[k].pc = "idle" /\ gen'[k].pc # "idle") =>
                   \/ gen'[k].activeParams = params
                   \/ (timer # <<>> /\ timer' = <<>>
                          /\ gen'[k].activeParams = timer[1])
             /\ gen[k].pc # "idle" =>
                   gen'[k].activeParams = gen[k].activeParams]_vars

\* two entries; since the older one was recorded the params were changed, an
\* entry was loaded and the image was edited
C15_Witness ==
    /\ Len(history) = 2
    /\ gen[1].pc = "done"
    /\ gen[1].activeParams.modelVersion = GeminiPro
    /\ history[2] = [imageUrl |-> gen[1].imageUrl,
                     params |-> gen[1].activeParams]
    /\ history[1] = [imageUrl |-> gen[2].imageUrl,
                     params |-> gen[2].activeParams]
    /\ history[1].params # history[2].params
    /\ params = history[2].params
    /\ currentImage = <<<<"data:image/png;base64", "edited">>>>

\* C16: every drawn tile is at integer grid coordinates: the centring offset
\* (baseSize - currentLayerSize) / 2 is an integer, and so are gridX, gridY.
C16_IntegerGridCoordinates ==
    \A i \in Invocations :
        LET c == call[i]
        IN  c.cube # <<>> =>
               /\ (c.cube[1].gridX2 - 2 * c.cube[1].x) % 2 = 0
               /\ c.cube[1].gridX2 % 2 = 0
               /\ c.cube[1].gridY2 % 2 = 0

\* C17: the size of every drawn layer is at most baseSize, and the size of a
\* layer is at most the size of the layer below it.
C17_LayerSizeTapers ==
    /\ [](\A i \in Invocations :
             call[i].tiles # <<>> =>
                 (call[i].layerSize >= 1
                    /\ call[i].layerSize <= call[i].p.baseSize))
    /\ [][\A i \in Invocations :
             (call[i].tiles # <<>> /\ Len(call'[i].tiles) = Len(call[i].tiles) + 1)
                 => call'[i].layerSize <= call[i].layerSize]_vars

\* the fourth layer, two narrower than the third, which is narrower than the base
C17_Witness ==
    /\ call[1].pc = "tile"
    /\ call[1].p.baseSize = 9
    /\ call[1].z = 3
    /\ call[1].layerSize = 3
    /\ Len(call[1].tiles) = 4
    /\ call[1].tiles[3] = 25

\* (z, x, y) of one drawCube call before (z, x, y) of another, lexicographically
LexLess(A, B) ==
    \/ A.z < B.z
    \/ A.z = B.z /\ A.x < B.x
    \/ A.z = B.z /\ A.x = B.x /\ A.y < B.y

\* C18: the background is filled exactly once and before any tile; tiles are
\* drawn in strictly increasing lexicographic order of (z, x, y) (of two runs
\* of the same draw sequence, the one that has made fewer drawCube calls is at
\* a lexicographically smaller tile); nothing is drawn once the image is
\* encoded, and it is encoded only once the loops have ended.
C18_DrawOrder ==
    /\ [](\A i \in Invocations :
             /\ (call[i].ctx /\ call[i].pc # "idle") => Len(call[i].bg) = 1
             /\ call[i].n > 0 => Len(call[i].bg) = 1
             /\ call[i].result # EmptyString => call[i].pc = "done")
    /\ [](\A i, j \in Invocations :
             (call[i].n > 0 /\ call[i].n < call[j].n /\ call[i].p = call[j].p)
                 => LexLess(call[i].cube[1], call[j].cube[1]))
    /\ [][\A i \in Invocations :
             /\ call'[i].bg # call[i].bg =>
                   (call[i].bg = <<>> /\ call[i].n = 0 /\ call'[i].n = 0)
             /\ call[i].pc \in {"encode", "done"} =>
                   (call'[i].n = call[i].n /\ call'[i].cube = call[i].cube
                        /\ call'[i].bg = call[i].bg)
             /\ call'[i].result # call[i].result =>
                   (call[i].pc = "encode" /\ call[i].z >= call[i].p.levels)]_vars

\* one run at (0, 0, 2), the other further on at (0, 1, 0)
C18_Witness ==
    /\ call[1].cube # <<>>
    /\ call[2].cube # <<>>
    /\ call[1].cube[1].z = 0
    /\ call[1].cube[1].x = 0
    /\ call[1].cube[1].y = 2
    /\ call[2].cube[1].z = 0
    /\ call[2].cube[1].x = 1
    /\ call[2].cube[1].y = 0
    /\ call[1].n < call[2].n

\* the tile B hides part of the tile A: in A's layer and in front of it
InFront(B, A) ==
    /\ B.z = A.z
    /\ B.x >= A.x
    /\ B.y >= A.y
    /\ <<B.x, B.y>> # <<A.x, A.y>>

\* C19: painter's order.  Of two runs of the same draw sequence, whenever the
\* latest tile B of one is in front of the latest tile A of the other in the
\* same layer, or in a higher layer, B comes later in the sequence than A.
C19_PaintersOrder ==
    \A i, j \in Invocations :
        (call[i].cube # <<>> /\ call[j].cube # <<>> /\ call[i].p = call[j].p) =>
            LET A == call[i].cube[1]
                B == call[j].cube[1]
            IN  (InFront(B, A) \/ B.z > A.z) => call[j].n > call[i].n

\* A at (0, 0, 1) and B at (0, 2, 2), in front of it and drawn later
C19_Witness ==
    /\ call[1].cube # <<>>
    /\ call[2].cube # <<>>
    /\ call[1].cube[1].z = 0
    /\ call[2].cube[1].z = 0
    /\ call[1].cube[1].x = 0
    /\ call[1].cube[1].y = 1
    /\ call[2].cube[1].x = 2
    /\ call[2].cube[1].y = 2
    /\ call[2].n > call[1].n

\* C20: for a pattern other than Rough Stone the colour passed to drawCube at
\* layer z is (min(255, r + 10z), g, b) for Glowing Neon and the decoded
\* tileColor (r, g, b) for every other pattern.
C20_TileColour ==
    \A i \in Invocations :
        LET c == call[i]
            d == hexToRgb(c.p.tileColor)
        IN  (c.cube # <<>> /\ c.p.pattern # STONE) =>
               /\ c.cube[1].g = d.g
               /\ c.cube[1].b = d.b
               /\ c.p.pattern # NEON => c.cube[1].r = d.r
               /\ (c.p.pattern = NEON /\ d.r + 10 * c.cube[1].z <= 255) =>
                     c.cube[1].r = d.r + 10 * c.cube[1].z
               /\ (c.p.pattern = NEON /\ d.r + 10 * c.cube[1].z > 255) =>
                     c.cube[1].r = 255

\* neon red at the cap on the second layer
C20_Witness ==
    /\ call[1].p.pattern = NEON
    /\ call[1].p.tileColor = RedTileColor
    /\ call[1].cube # <<>>
    /\ call[1].cube[1].z = 1
    /\ call[1].cube[1].r = 255
    /\ call[1].cube[1].g = 0

\* the offsets the colour of a drawCube call has from the decoded tileColor
Offsets(c) ==
    LET d == hexToRgb(c.p.tileColor)
    IN  <<c.cube[1].r - d.r, c.cube[1].g - d.g, c.cube[1].b - d.b>>

\* C21 (as claimed): for Rough Stone each of R, G and B of a tile gets its
\* own independently chosen offset: wherever a stone tile is about to be
\* coloured, every combination of three offsets is a colour it can get.
C21_IndependentChannelNoise ==
    \A i \in Invocations :
        LET c == call[i]
        IN  (c.pc = "tile" /\ c.p.pattern = STONE) =>
               \A nr \in NoiseValues, ng \in NoiseValues, nb \in NoiseValues :
                  [r |-> c.rgb.r + nr, g |-> c.rgb.g + ng, b |-> c.rgb.b + nb]
                      \in PerTileColors(c.rgb, c.p.pattern, c.z)

\* C21 (amended): for Rough Stone each tile gets one random offset in
\* [-10, 10), the same for its R, G and B, applied to that tile only: the
\* decoded colour the offsets are added to stays what it was.
C21_OneNoisePerTile ==
    \A i \in Invocations :
        LET c == call[i]
        IN  (c.ctx /\ c.p.pattern = STONE) =>
               /\ c.rgb = hexToRgb(c.p.tileColor)
               /\ c.cube # <<>> =>
                     /\ Offsets(c)[1] \in -10..10
                     /\ Offsets(c)[2] = Offsets(c)[1]
                     /\ Offsets(c)[3] = Offsets(c)[1]

\* a stone tile darkened by 10 on the third layer, after lighter ones
C21_Witness ==
    /\ call[1].p.pattern = STONE
    /\ call[1].p.tileColor = DefaultTileColor
    /\ call[1].cube # <<>>
    /\ call[1].cube[1].z = 2
    /\ call[1].n > 2
    /\ Offsets(call[1]) = <<-10, -10, -10>>

\* every channel of the colour a at most the same channel of the colour b
Darker(a, b) == \A ch \in 1..3 : a[ch] <= b[ch]

\* C22: the three faces are filled with the +20% (top), -15% (right) and -5%
\* (left) shades of the tile colour, so top >= left >= right in every
\* channel, and every face is outlined in a shade darker than its own fill.
C22_FaceShadesAndOutline ==
    \A i \in Invocations :
        LET c == call[i]
            faces == CubeFaces(c.p, c.cube[1])
        IN  c.cube # <<>> =>
               /\ faces[1].fill = shadeColor(c.cube[1].r, c.cube[1].g, c.cube[1].b, 20)
               /\ faces[2].fill = shadeColor(c.cube[1].r, c.cube[1].g, c.cube[1].b, -15)
               /\ faces[3].fill = shadeColor(c.cube[1].r, c.cube[1].g, c.cube[1].b, -5)
               /\ Darker(faces[3].fill, faces[1].fill)
               /\ Darker(faces[2].fill, faces[3].fill)
               /\ \A f \in 1..3 : Darker(faces[f].stroke, faces[f].fill)

\* a call of handleGenerate waits for the image model
InFlight(k) == gen[k].pc = "awaiting"

\* C24: isGenerating is true at every moment at least one generation request
\* is in flight (also when the shared-config load and a click overlap), and
\* false once none is.
C24_IsGeneratingTracksRequests ==
    isGenerating <=> \E k \in Generations : InFlight(k)

\* the step in which the image model's exception reaches call k
Fails(k) == gen[k].pc = "awaiting" /\ gen'[k].pc = "failed"

\* the step in which call k of handleGenerate starts
Starts(k) == gen[k].pc = "idle" /\ gen'[k].pc # "idle"

\* C25: a generation that fails with an exception sets the error message,
\* leaves the displayed image and the history unchanged and resets
\* isGenerating to false; starting a generation clears the previous error.
C25_FailureSetsErrorOnly ==
    [][ /\ \A k \in Generations :
             Fails(k) => /\ error' # <<>>
                         /\ error'[1] # ""
                         /\ currentImage' = currentImage
                         /\ history' = history
                         /\ isGenerating' = FALSE
        /\ \A k \in Generations :
             Starts(k) => error' = <<>> ]_vars

\* the second generation failed after the first one's image was shown
C25_Witness ==
    /\ gen[1].pc = "done"
    /\ gen[2].pc = "failed"
    /\ error = <<"No image data found in response">>
    /\ Shown(currentImage)
    /\ currentImage = <<gen[1].imageUrl>>
    /\ Len(history) = 1
    /\ ~isGenerating

\* C26: every entry of the history has a non-empty imageUrl: a generation
\* that produced no image never adds an entry.
C26_HistoryImagesNonEmpty ==
    \A n \in 1..Len(history) : history[n].imageUrl # EmptyString

\* the calls of handleGenerate that got their image, in the order they ended
\* in a session whose calls run one after the other
Done == {k \in DOMAIN gen : gen[k].pc = "done"}

\* C23: the history never holds more than 10 entries and is ordered newest
\* first: each successful generation is prepended, and the eleventh makes the
\* oldest entry the one dropped: the n-th entry is the n-th latest generation.
C23_HistoryNewestFirstMaxTen ==
    /\ Len(history) <= 10
    /\ Len(history) = Min(10, Cardinality(Done))
    /\ \A n \in 1..Len(history) :
          history[n].imageUrl = gen[Cardinality(Done) - n + 1].imageUrl

\* the eleventh generation has been added and the first one's entry, which
\* differed from the second one's, is gone
C23_Witness ==
    /\ Cardinality(Done) = 11
    /\ Len(history) = 10
    /\ gen[1].imageUrl # gen[2].imageUrl
    /\ history[10].imageUrl = gen[2].imageUrl
    /\ history[1].imageUrl = gen[11].imageUrl
    /\ gen[11].imageUrl # gen[10].imageUrl

\* the sixteen hex digits in both letter cases
LowerDigits ==
    <<"0", "1", "2", "3", "4", "5", "6", "7", "8", "9",
      "a", "b", "c", "d", "e", "f">>
UpperDigits ==
    <<"0", "1", "2", "3", "4", "5", "6", "7", "8", "9",
      "A", "B", "C", "D", "E", "F">>

IsDigit(ch) == \E v \in 1..16 : LowerDigits[v] = ch \/ UpperDigits[v] = ch

DigitValue(ch) ==
    (CHOOSE v \in 1..16 : LowerDigits[v] = ch \/ UpperDigits[v] = ch) - 1

\* a string of exactly six hex digits, with or without a leading '#'
IsHexColor(t) ==
    \E lead \in {<<>>, <<"#">>} :
       /\ Len(t) = Len(lead) + 6
       /\ SubSeq(t, 1, Len(lead)) = lead
       /\ \A k \in (Len(lead) + 1)..Len(t) : IsDigit(t[k])

\* the channel written with the two digits that end at position k from the end
ChannelAt(t, k) ==
    16 * DigitValue(t[Len(t) - k - 1]) + DigitValue(t[Len(t) - k])

\* what the claim says hexToRgb returns
Decoded(t) ==
    IF IsHexColor(t)
    THEN [r |-> ChannelAt(t, 4), g |-> ChannelAt(t, 2), b |-> ChannelAt(t, 0)]
    ELSE [r |-> 100, g |-> 100, b |-> 100]

\* C30: hexToRgb decodes every string of six hex digits (with or without a
\* leading '#', any letter case) to its three channels in 0..255 and gives
\* (100, 100, 100) for every other string, and the rendering then still
\* completes, with grey tiles.
C30_HexToRgbDecodesOrFallsBack ==
    /\ [](\A i \in Invocations :
            LET c == call[i]
            IN  c.ctx =>
                  /\ c.rgb = Decoded(c.p.tileColor)
                  /\ \A ch \in {"r", "g", "b"} : c.rgb[ch] \in 0..255
                  /\ c.cube # <<>> =>
                        [r |-> c.cube[1].r, g |-> c.cube[1].g,
                         b |-> c.cube[1].b] = Decoded(c.p.tileColor))
    /\ <>(/\ call[1].pc = "done"
          /\ call[1].ctx => (IsCanvasImage(call[1].result) /\ call[1].n > 0))

\* a partially typed colour rendered to its end with grey tiles
C30_Witness ==
    /\ call[1].pc = "done"
    /\ call[1].p.tileColor = <<"#", "b", "F", "0">>
    /\ call[1].ctx
    /\ call[1].n > 0
    /\ call[1].cube[1].r = 100 /\ call[1].cube[1].g = 100
    /\ call[1].cube[1].b = 100
    /\ IsCanvasImage(call[1].result)

\* the voice input has work pending: the recorder's stop, the FileReader or
\* the transcription request
VoicePending == voice.pc \in {"reading", "transcribing"}

\* C27: after the user stops a recording isTranscribing returns to false in
\* every outcome, also when the transcription fails: once nothing of the
\* voice input is pending any more, isTranscribing is false.
C27_TranscribingEnds ==
    isTranscribing => VoicePending

\* C28: whenever a message's audio is playing, playingAudioId is that
\* message's id, and at most one source plays at a time, whatever the Listen
\* and Stop clicks, ended events and chat closes.
C28_PlayingIdMatchesSource ==
    /\ \A s \in 1..Len(sources) :
          sources[s].state = "playing" => playingAudioId = <<sources[s].msg>>
    /\ Cardinality({s \in 1..Len(sources) : sources[s].state = "playing"}) <= 1

\* the calls of handleSendMessage that wait for the reply or its speech
ChatInFlight == {k \in DOMAIN chat : chat[k].pc \in {"reply", "speech"}}

\* C29: isChatLoading is true whenever a chat request is in flight and no
\* second request starts while one is in flight, by the Send button or the
\* Enter key; every accepted send has appended its user message and, once
\* it has ended, exactly one model message.
C29_OneChatRequestAtATime ==
    /\ ChatInFlight # {} => isChatLoading
    /\ Cardinality(ChatInFlight) <= 1
    /\ ChatInFlight = {} => ~isChatLoading
    /\ Cardinality({m \in 1..Len(chatMessages) :
                       chatMessages[m].role = "user"})
          = Cardinality({k \in DOMAIN chat : chat[k].pc # "idle"})
    /\ Cardinality({m \in 1..Len(chatMessages) :
                       chatMessages[m].role = "model"})
          = Cardinality({k \in DOMAIN chat : chat[k].pc \in {"done", "failed"}})

====
